---- MODULE Spec2Model ----
(***************************************************************************)
(* Model of the two scripts of snake-slurm:                                *)
(*   test_gpu_node.py      the per-node smoke test, writing one JSON       *)
(*                         result record per invocation;                   *)
(*   summarize_results.py  the aggregator, reading result records and      *)
(*                         writing a plain-text report.                    *)
(* The file system is one directory; a file's content is a sequence of     *)
(* strings (JSON tokens for a record, lines for a report).  PyTorch and    *)
(* Cellpose are outside the repository: each call into them is an input,   *)
(* drawn from the outcomes the calling code distinguishes.                 *)
(***************************************************************************)
EXTENDS Integers, Sequences, FiniteSets, TLC

VARIABLES
    fs,            \* the directory: file name -> content, DOMAIN = existing files
    written,       \* file name -> the result dict that test_gpu_node.py dumped into it
    npc,           \* test_gpu_node.py: position in main
    nargs,         \* test_gpu_node.py: args (node, output)
    result,        \* test_gpu_node.py: the result dict of main
    model,         \* test_gpu_node.py: the model returned by test_model_loading
    nstdout,       \* test_gpu_node.py: the banners printed so far
    nwrites,       \* test_gpu_node.py: json.dump calls of this invocation
    nexit,         \* test_gpu_node.py: exit code, -1 while running
    spc,           \* summarize_results.py: position in main
    argv,          \* summarize_results.py: the command line given
    sargs,         \* summarize_results.py: args after parse_args
    result_files,  \* summarize_results.py: the list of files to load
    results,       \* summarize_results.py: the records loaded so far
    fs_before,     \* the directory as it was when summarize_results.py started
    sstdout,       \* summarize_results.py: the lines printed
    sexit          \* summarize_results.py: exit code, -1 while running

vars == <<fs, written, npc, nargs, result, model, nstdout, nwrites, nexit,
          spc, argv, sargs, result_files, results, fs_before, sstdout, sexit>>

disk == <<fs, written>>

nvars == <<npc, nargs, result, model, nstdout, nwrites, nexit>>

svars == <<spc, argv, sargs, result_files, results, fs_before, sstdout, sexit>>

(***************************************************************************)
(* Bounds and input sets                                                   *)
(***************************************************************************)

\* longest error list of a hand-constructed record
MaxErrs == 2

\* longest --input-files list
MaxListed == 2

NodeNames == {"gpu-01", "gpu-02"}

Hostnames == {"gpu-host"}

\* messages of the exceptions the external libraries raise
Msgs == {"boom"}

ResultSuffix == "_result.json"

SummaryFile == "summary.txt"

OtherFile == "gpu-03.json"

ResultFileOf(node) == node \o ResultSuffix

FileNames == {ResultFileOf(n) : n \in NodeNames} \cup {OtherFile, SummaryFile}

None == "None"

RECURSIVE SeqsUpTo(_, _)
SeqsUpTo(S, n) ==
    IF n = 0 THEN {<<>>}
    ELSE LET shorter == SeqsUpTo(S, n - 1)
         IN  shorter \cup {Append(s, x) : s \in shorter, x \in S}

Range(s) == {s[i] : i \in 1..Len(s)}

RECURSIVE Flatten(_)
Flatten(ss) == IF ss = <<>> THEN <<>> ELSE Head(ss) \o Flatten(Tail(ss))

(***************************************************************************)
(* test_gpu_node.py: the probes.  Each takes the outcome of its library    *)
(* calls and returns what the function returns.                            *)
(***************************************************************************)

test_environment == "environment"

PytorchOutcomes ==
    {[kind |-> "cuda", msg |-> ""], [kind |-> "no_cuda", msg |-> ""]}
        \cup {[kind |-> "raise", msg |-> e] : e \in Msgs}

test_pytorch(o) ==
    CASE o.kind = "cuda"    -> <<"devices", <<>>>>
      [] o.kind = "no_cuda" -> <<"cuda_unavailable", <<"CUDA not available despite GPU partition">>>>
      [] o.kind = "raise"   -> <<"error: " \o o.msg, <<"PyTorch error: " \o o.msg>>>>

CellposeOutcomes ==
    {[kind |-> "imported", msg |-> ""]} \cup {[kind |-> "raise", msg |-> e] : e \in Msgs}

test_cellpose(o) ==
    IF o.kind = "imported"
    THEN <<"imported", <<>>>>
    ELSE <<"error: " \o o.msg, <<"Cellpose import error: " \o o.msg>>>>

\* cpu_with_cuda: model.device == 'cpu' and torch.cuda.is_available()
ModelOutcomes ==
    {[kind |-> "loaded", cpu_with_cuda |-> b, msg |-> ""] : b \in BOOLEAN}
        \cup {[kind |-> "raise", cpu_with_cuda |-> FALSE, msg |-> e] : e \in Msgs}

ModelWarning == "Model loaded on CPU despite CUDA being available!"

\* mutant: a model loaded on the CPU is not returned
test_model_loading_dropping(o) ==
    IF o.kind = "loaded"
    THEN IF o.cpu_with_cuda
         THEN <<None, "success, warning", <<ModelWarning>>>>
         ELSE <<"model", "success", <<>>>>
    ELSE <<None, "error: " \o o.msg, <<"Model loading error: " \o o.msg>>>>

test_model_loading(o) ==
    IF o.kind = "loaded"
    THEN IF o.cpu_with_cuda
         THEN <<"model", "success, warning", <<ModelWarning>>>>
         ELSE <<"model", "success", <<>>>>
    ELSE <<None, "error: " \o o.msg, <<"Model loading error: " \o o.msg>>>>

InferenceOutcomes ==
    {[kind |-> "masks", msg |-> ""]} \cup {[kind |-> "raise", msg |-> e] : e \in Msgs}

test_inference(m, o) ==
    IF o.kind = "masks"
    THEN <<"success", <<>>>>
    ELSE <<"error: " \o o.msg, <<"Inference error: " \o o.msg>>>>

InferenceSkipped == "error: Model not loaded, skipping inference"

\* the keys of result["tests"], in the order main sets them
TestKeys == <<"environment", "pytorch", "cellpose", "model_loading", "inference">>

SetTest(r, key, value) ==
    [r EXCEPT !.tests = [k \in DOMAIN r.tests \cup {key} |->
                            IF k = key THEN value ELSE r.tests[k]]]

\* mutant: new errors are put in front of the list
ExtendPrepending(r, errors) == [r EXCEPT !.errors = errors \o r.errors]

Extend(r, errors) == [r EXCEPT !.errors = r.errors \o errors]

NewResult(node, hostname) ==
    [node |-> node, hostname |-> hostname, status |-> "unknown",
     tests |-> [k \in {} |-> ""], errors |-> <<>>]

\* mutant: a single error still counts as a success
DetermineStatusOffByOne(errors) == IF Len(errors) <= 1 THEN "SUCCESS" ELSE "FAILED"

DetermineStatus(errors) == IF Len(errors) = 0 THEN "SUCCESS" ELSE "FAILED"

\* mutant: the script exits 0 whatever the status
ExitCodeAlwaysZero(status) == 0

ExitCode(status) == IF status = "SUCCESS" THEN 0 ELSE 1

(***************************************************************************)
(* JSON: json.dump writes a record as a sequence of tokens, json.load      *)
(* parses one back and raises on anything else.                            *)
(***************************************************************************)

DumpTests(tests) ==
    Flatten([i \in 1..Len(TestKeys) |->
                IF TestKeys[i] \in DOMAIN tests
                THEN <<TestKeys[i], tests[TestKeys[i]]>>
                ELSE <<>>])

json_dump(r) ==
    <<"{", "node", r.node, "hostname", r.hostname, "status", r.status, "tests", "{">>
        \o DumpTests(r.tests)
        \o <<"}", "errors", "[">> \o r.errors \o <<"]", "}">>

\* index of the first "}" after the opening of the tests object, 0 if none
TestsEnd(text) ==
    LET closing == {i \in 10..Len(text) : text[i] = "}"}
    IN  IF closing = {} THEN 0 ELSE CHOOSE i \in closing : \A j \in closing : i <= j

WellFormed(text) ==
    /\ Len(text) >= 14
    /\ text[1] = "{" /\ text[2] = "node" /\ text[4] = "hostname"
    /\ text[6] = "status" /\ text[8] = "tests" /\ text[9] = "{"
    /\ LET c == TestsEnd(text)
       IN  /\ c # 0
           /\ (c - 10) % 2 = 0
           /\ c + 4 <= Len(text)
           /\ text[c + 1] = "errors" /\ text[c + 2] = "["
           /\ text[Len(text) - 1] = "]" /\ text[Len(text)] = "}"
           /\ \A i \in (c + 3)..(Len(text) - 2) : text[i] \notin {"[", "]", "{", "}"}

json_load(text) ==
    LET c    == TestsEnd(text)
        keys == {text[i] : i \in {j \in 10..(c - 1) : (j - 10) % 2 = 0}}
    IN  [node     |-> text[3],
         hostname |-> text[5],
         status   |-> text[7],
         tests    |-> [k \in keys |->
                          text[1 + CHOOSE i \in 10..(c - 1) :
                                      (i - 10) % 2 = 0 /\ text[i] = k]],
         errors   |-> SubSeq(text, c + 3, Len(text) - 2)]

(***************************************************************************)
(* test_gpu_node.py: main                                                  *)
(***************************************************************************)

\* parse_args and the construction of result; the environment probe follows
NodeStart(node, output, hostname) ==
    /\ npc = "idle" /\ spc = "idle"
    /\ nargs' = [node |-> node, output |-> output]
    /\ result' = NewResult(node, hostname)
    /\ model' = None
    /\ nstdout' = <<"TESTING GPU NODE: " \o node>>
    /\ nwrites' = 0
    /\ nexit' = -1
    /\ npc' = "environment"
    /\ UNCHANGED <<disk, svars>>

NodeEnvironment ==
    /\ npc = "environment"
    /\ result' = SetTest(result, "environment", test_environment)
    /\ npc' = "pytorch"
    /\ UNCHANGED <<disk, nargs, model, nstdout, nwrites, nexit, svars>>

NodePytorch(o) ==
    /\ npc = "pytorch"
    /\ LET r == test_pytorch(o)
       IN  result' = Extend(SetTest(result, "pytorch", r[1]), r[2])
    /\ nstdout' = Append(nstdout, "[TEST 1]")
    /\ npc' = "cellpose"
    /\ UNCHANGED <<disk, nargs, model, nwrites, nexit, svars>>

\* mutant: a failed Cellpose import ends the checks
NodeCellposeAborting(o) ==
    /\ npc = "cellpose"
    /\ LET r == test_cellpose(o)
       IN  result' = Extend(SetTest(result, "cellpose", r[1]), r[2])
    /\ nstdout' = Append(nstdout, "[TEST 2]")
    /\ npc' = IF o.kind = "raise" THEN "status" ELSE "model_loading"
    /\ UNCHANGED <<disk, nargs, model, nwrites, nexit, svars>>

NodeCellpose(o) ==
    /\ npc = "cellpose"
    /\ LET r == test_cellpose(o)
       IN  result' = Extend(SetTest(result, "cellpose", r[1]), r[2])
    /\ nstdout' = Append(nstdout, "[TEST 2]")
    /\ npc' = "model_loading"
    /\ UNCHANGED <<disk, nargs, model, nwrites, nexit, svars>>

NodeModelLoading(o) ==
    /\ npc = "model_loading"
    /\ LET r == test_model_loading(o)
       IN  /\ model' = r[1]
           /\ result' = Extend(SetTest(result, "model_loading", r[2]), r[3])
    /\ nstdout' = Append(nstdout, "[TEST 3]")
    /\ npc' = "inference"
    /\ UNCHANGED <<disk, nargs, nwrites, nexit, svars>>

NodeInference(o) ==
    /\ npc = "inference"
    /\ model # None
    /\ LET r == test_inference(model, o)
       IN  result' = Extend(SetTest(result, "inference", r[1]), r[2])
    /\ nstdout' = Append(nstdout, "[TEST 4]")
    /\ npc' = "status"
    /\ UNCHANGED <<disk, nargs, model, nwrites, nexit, svars>>

\* mutant: a skipped inference leaves no entry in tests
NodeSkipInferenceSilent ==
    /\ npc = "inference"
    /\ model = None
    /\ npc' = "status"
    /\ UNCHANGED <<disk, nargs, result, model, nstdout, nwrites, nexit, svars>>

NodeSkipInference ==
    /\ npc = "inference"
    /\ model = None
    /\ result' = SetTest(result, "inference", InferenceSkipped)
    /\ npc' = "status"
    /\ UNCHANGED <<disk, nargs, model, nstdout, nwrites, nexit, svars>>

NodeStatus ==
    /\ npc = "status"
    /\ result' = [result EXCEPT !.status = DetermineStatus(result.errors)]
    /\ nstdout' = Append(nstdout, IF Len(result.errors) = 0
                                  THEN "ALL TESTS PASSED" ELSE "TESTS FAILED")
    /\ npc' = "save"
    /\ UNCHANGED <<disk, nargs, model, nwrites, nexit, svars>>

WriteFile(files, name, text) ==
    [f \in DOMAIN files \cup {name} |-> IF f = name THEN text ELSE files[f]]

NodeSave ==
    /\ npc = "save"
    /\ fs' = WriteFile(fs, nargs.output, json_dump(result))
    /\ written' = [f \in DOMAIN written \cup {nargs.output} |->
                        IF f = nargs.output THEN result ELSE written[f]]
    /\ nwrites' = nwrites + 1
    /\ nstdout' = Append(nstdout, "Results saved to: " \o nargs.output)
    /\ npc' = "exit"
    /\ UNCHANGED <<nargs, result, model, nexit, svars>>

NodeExit ==
    /\ npc = "exit"
    /\ nexit' = ExitCode(result.status)
    /\ npc' = "idle"
    /\ UNCHANGED <<disk, nargs, result, model, nstdout, nwrites, svars>>

NodeNext ==
    \/ \E n \in NodeNames, h \in Hostnames : NodeStart(n, ResultFileOf(n), h)
    \/ NodeEnvironment
    \/ \E o \in PytorchOutcomes : NodePytorch(o)
    \/ \E o \in CellposeOutcomes : NodeCellpose(o)
    \/ \E o \in ModelOutcomes : NodeModelLoading(o)
    \/ \E o \in InferenceOutcomes : NodeInference(o)
    \/ NodeSkipInference
    \/ NodeStatus
    \/ NodeSave
    \/ NodeExit

(***************************************************************************)
(* summarize_results.py                                                    *)
(***************************************************************************)

Dir == "results"

\* the characters of the file names, in code-point order
Alphabet == "-.0123456789_abcdefghijklmnopqrstuvwxyz"

CharRank(c) == CHOOSE i \in 1..Len(Alphabet) : SubSeq(Alphabet, i, i) = c

RECURSIVE StrLess(_, _)
StrLess(a, b) ==
    IF a = "" THEN b # ""
    ELSE IF b = "" THEN FALSE
    ELSE IF SubSeq(a, 1, 1) = SubSeq(b, 1, 1) THEN StrLess(Tail(a), Tail(b))
    ELSE CharRank(SubSeq(a, 1, 1)) < CharRank(SubSeq(b, 1, 1))

RECURSIVE sorted(_)
sorted(S) ==
    IF S = {} THEN <<>>
    ELSE LET least == CHOOSE x \in S : \A y \in S \ {x} : StrLess(x, y)
         IN  <<least>> \o sorted(S \ {least})

EndsWith(name, suffix) ==
    /\ Len(name) >= Len(suffix)
    /\ SubSeq(name, Len(name) - Len(suffix) + 1, Len(name)) = suffix

\* Path(input_dir).glob("*_result.json"), in no particular order
glob(files, dir) == {f \in DOMAIN files : dir = Dir /\ EndsWith(f, ResultSuffix)}

\* argparse: --input-dir and --output are required, --input-files is optional
parse_args_accepts(a) == a.input_dir # None /\ a.output # None

ResultFilesOf(args, files) ==
    IF args.input_files # <<>>
    THEN args.input_files
    ELSE sorted(glob(files, args.input_dir))

Successes(rs) == SelectSeq(rs, LAMBDA r : r.status = "SUCCESS")

\* mutant: the failures are selected by a misspelt status
FailuresMisspelt(rs) == SelectSeq(rs, LAMBDA r : r.status = "FAILURE")

Failures(rs) == SelectSeq(rs, LAMBDA r : r.status = "FAILED")

\* error_categories[error].append(node), the dict kept in insertion order
AddCategory(cats, error, node) ==
    IF \E i \in 1..Len(cats) : cats[i].error = error
    THEN [i \in 1..Len(cats) |->
            IF cats[i].error = error
            THEN [cats[i] EXCEPT !.nodes = Append(cats[i].nodes, node)]
            ELSE cats[i]]
    ELSE Append(cats, [error |-> error, nodes |-> <<node>>])

RECURSIVE AddErrors(_, _, _)
AddErrors(cats, errors, node) ==
    IF errors = <<>> THEN cats
    ELSE AddErrors(AddCategory(cats, Head(errors), node), Tail(errors), node)

RECURSIVE error_categories(_, _)
error_categories(cats, failures) ==
    IF failures = <<>> THEN cats
    ELSE error_categories(AddErrors(cats, Head(failures).errors, Head(failures).node),
                          Tail(failures))

RECURSIVE Join(_)
Join(names) ==
    IF names = <<>> THEN ""
    ELSE IF Len(names) = 1 THEN names[1]
    ELSE names[1] \o ", " \o Join(Tail(names))

Banner == "========"

Rule == "--------"

TotalLine(n) == "Total nodes tested: " \o ToString(n)

SuccessLine(n) == "SUCCESS: " \o ToString(n) \o " nodes"

FailedLine(n) == "FAILED:  " \o ToString(n) \o " nodes"

NodeLine(r) == "  " \o r.node \o " (hostname: " \o r.hostname \o ")"

SuccessLines(r) ==
    <<NodeLine(r)>>
        \o (IF "pytorch" \in DOMAIN r.tests /\ r.tests["pytorch"] = "devices"
            THEN <<"      GPU">> ELSE <<>>)

FailureLines(r) ==
    <<NodeLine(r)>> \o [i \in 1..Len(r.errors) |-> "      ERROR: " \o r.errors[i]] \o <<"">>

AffectedLine(nodes) ==
    "  Affected nodes (" \o ToString(Len(nodes)) \o "): " \o Join(nodes)

BreakdownLines(cats) ==
    Flatten([i \in 1..Len(cats) |-> <<"", cats[i].error, AffectedLine(cats[i].nodes)>>])

BreakdownHeader == "DETAILED ERROR BREAKDOWN:"

\* the text written to --output
Report(rs) ==
    LET successes == Successes(rs)
        failures  == Failures(rs)
    IN  <<Banner, "CELLPOSE-SAM GPU TEST SUMMARY", "Generated: now",
          TotalLine(Len(rs)), Banner, "",
          SuccessLine(Len(successes)), FailedLine(Len(failures)), "">>
        \o (IF successes # <<>>
            THEN <<"SUCCESSFUL NODES:", Rule>>
                    \o Flatten([i \in 1..Len(successes) |-> SuccessLines(successes[i])])
                    \o <<"">>
            ELSE <<>>)
        \o (IF failures # <<>>
            THEN <<"FAILED NODES:", Rule>>
                    \o Flatten([i \in 1..Len(failures) |-> FailureLines(failures[i])])
            ELSE <<>>)
        \o <<"", BreakdownHeader, Rule>>
        \o BreakdownLines(error_categories(<<>>, failures))
        \o <<"", Banner>>

NoArgs == [input_dir |-> None, output |-> None, input_files |-> <<>>]

\* parse_args, and the choice of result_files
SumStart(a) ==
    /\ spc = "idle" /\ npc = "idle"
    /\ argv' = a
    /\ fs_before' = fs
    /\ IF parse_args_accepts(a)
       THEN /\ sargs' = a
            /\ result_files' = ResultFilesOf(a, fs)
            /\ spc' = "load"
            /\ sexit' = -1
       ELSE /\ spc' = "done"
            /\ sexit' = 2
            /\ UNCHANGED <<sargs, result_files>>
    /\ UNCHANGED <<disk, nvars, results, sstdout>>

\* mutant: a file that cannot be loaded is taken as an empty record
SumLoadLenient ==
    /\ spc = "load"
    /\ Len(results) < Len(result_files)
    /\ LET f == result_files[Len(results) + 1]
       IN  IF f \in DOMAIN fs /\ WellFormed(fs[f])
           THEN results' = Append(results, json_load(fs[f]))
           ELSE results' = Append(results, NewResult(None, None))
    /\ UNCHANGED <<disk, nvars, argv, sargs, result_files, spc, sexit, fs_before, sstdout>>

\* one iteration of the loading loop; open and json.load raise on a file that
\* is missing or is not JSON, and nothing catches it
SumLoad ==
    /\ spc = "load"
    /\ Len(results) < Len(result_files)
    /\ LET f == result_files[Len(results) + 1]
       IN  IF f \in DOMAIN fs /\ WellFormed(fs[f])
           THEN /\ results' = Append(results, json_load(fs[f]))
                /\ UNCHANGED <<spc, sexit>>
           ELSE /\ spc' = "done"
                /\ sexit' = 1
                /\ UNCHANGED results
    /\ UNCHANGED <<disk, nvars, argv, sargs, result_files, fs_before, sstdout>>

SumWrite ==
    /\ spc = "load"
    /\ Len(results) = Len(result_files)
    /\ fs' = WriteFile(fs, sargs.output, Report(results))
    /\ UNCHANGED written
    /\ spc' = "echo"
    /\ UNCHANGED <<nvars, argv, sargs, result_files, results, fs_before, sstdout, sexit>>

SumEcho ==
    /\ spc = "echo"
    /\ sstdout' = <<"Summary written to: " \o sargs.output>> \o fs[sargs.output]
    /\ spc' = "done"
    /\ sexit' = 0
    /\ UNCHANGED <<disk, nvars, argv, sargs, result_files, results, fs_before>>

InputNames == {ResultFileOf(n) : n \in NodeNames} \cup {OtherFile}

NoRepeat(s) == \A i, j \in 1..Len(s) : i # j => s[i] # s[j]

Lists == {s \in SeqsUpTo(InputNames, MaxListed) : NoRepeat(s)}

\* the command lines tried; without --output only the bare ones
Argvs ==
    {[input_dir |-> d, output |-> SummaryFile, input_files |-> l] :
        d \in {None, Dir}, l \in Lists}
    \cup {[input_dir |-> d, output |-> None, input_files |-> <<>>] : d \in {None, Dir}}

SumNext ==
    \/ \E a \in Argvs : SumStart(a)
    \/ SumLoad
    \/ SumWrite
    \/ SumEcho

(***************************************************************************)
(* Specifications                                                          *)
(***************************************************************************)

NodeInit ==
    /\ npc = "idle"
    /\ nargs = [node |-> None, output |-> None]
    /\ result = NewResult(None, None)
    /\ model = None
    /\ nstdout = <<>>
    /\ nwrites = 0
    /\ nexit = -1

SumInit ==
    /\ spc = "idle"
    /\ argv = NoArgs
    /\ sargs = NoArgs
    /\ result_files = <<>>
    /\ results = <<>>
    /\ sstdout = <<>>
    /\ sexit = -1

NoFiles == [f \in {} |-> <<>>]

NoRecords == [f \in {} |-> NewResult(None, None)]

\* the pipeline: the nodes are tested one after the other into an empty
\* directory, then the results are summarized
Init ==
    /\ fs = NoFiles
    /\ fs_before = NoFiles
    /\ written = NoRecords
    /\ NodeInit
    /\ SumInit

Next == NodeNext \/ SumNext

Spec == Init /\ [][Next]_vars

\* the error strings of hand-constructed records
HandErrors == {"CUDA not available despite GPU partition", "Inference error: boom"}

HandRecords(node) ==
    {[node |-> node, hostname |-> h, status |-> s,
      tests |-> [k \in {"pytorch"} |-> "devices"], errors |-> e] :
        h \in Hostnames, s \in {"SUCCESS", "FAILED"}, e \in SeqsUpTo(HandErrors, MaxErrs)}

\* a file that is not JSON: a record cut short
Malformed == <<"{", "node">>

OldReport == <<Banner, "an earlier report">>

\* what a hand-constructed directory may hold under each name; <<>> stands for
\* a file that does not exist
HandContents(f) ==
    IF f = SummaryFile THEN {<<>>, OldReport}
    ELSE IF f = OtherFile
    THEN {<<>>} \cup {json_dump(r) : r \in {x \in HandRecords("gpu-03") :
                                        x.status = "FAILED" /\ Len(x.errors) = 1}}
    ELSE {<<>>, Malformed}
            \cup UNION {{json_dump(r) : r \in HandRecords(n)} :
                            n \in {m \in NodeNames : ResultFileOf(m) = f}}

Existing(files) == [f \in {g \in DOMAIN files : files[g] # <<>>} |-> files[f]]

RECURSIVE HandFiles(_)
HandFiles(names) ==
    IF names = {} THEN {NoFiles}
    ELSE LET f == CHOOSE g \in names : TRUE
         IN  {WriteFile(files, f, c) : files \in HandFiles(names \ {f}), c \in HandContents(f)}

\* the aggregator alone, over a directory of hand-constructed files
InitSum ==
    /\ fs \in {Existing(files) : files \in HandFiles(FileNames)}
    /\ fs_before = fs
    /\ written = NoRecords
    /\ NodeInit
    /\ SumInit

SpecSum == InitSum /\ [][SumNext]_vars

(***************************************************************************)
(* Properties of test_gpu_node.py, under Spec                              *)
(***************************************************************************)

\* the files test_gpu_node.py has written
RecordFiles == DOMAIN written

NodeRan == npc = "idle" /\ nexit # -1

TestBanners == <<"[TEST 1]", "[TEST 2]", "[TEST 3]", "[TEST 4]">>

\* the probes run so far, in the order they printed their banner
ProbesRun == SelectSeq(nstdout, LAMBDA l : l \in Range(TestBanners))

\* C1: in every result record the per-node script has written, whatever the
\* probes' outcomes, status is FAILED iff the error list is non-empty and
\* SUCCESS iff it is empty.
C1_StatusIffErrors ==
    \A f \in RecordFiles :
        /\ f \in DOMAIN fs
        /\ WellFormed(fs[f])
        /\ LET r == json_load(fs[f])
           IN  /\ (r.status = "FAILED") <=> (r.errors # <<>>)
               /\ (r.status = "SUCCESS") <=> (r.errors = <<>>)

C1_Witness ==
    /\ NodeRan
    /\ \E f, g \in RecordFiles :
          /\ json_load(fs[f]).status = "SUCCESS" /\ json_load(fs[f]).errors = <<>>
          /\ json_load(fs[g]).status = "FAILED" /\ Len(json_load(fs[g]).errors) = 1

\* C2: once the per-node script has exited, its exit code is 0 exactly when
\* the record in the --output file has status SUCCESS and 1 exactly when an
\* error was recorded, and that record was written before the exit.
C2_ExitMatchesStatus ==
    nexit # -1 =>
        /\ nwrites = 1
        /\ nargs.output \in DOMAIN fs
        /\ fs[nargs.output] = json_dump(result)
        /\ LET r == json_load(fs[nargs.output])
           IN  /\ nexit \in {0, 1}
               /\ (nexit = 0) <=> (r.status = "SUCCESS")
               /\ (nexit = 1) <=> (r.errors # <<>>)

C2_Witness ==
    /\ NodeRan
    /\ nexit = 1
    /\ json_load(fs[nargs.output]).status = "FAILED"

\* C3: whatever the PyTorch, Cellpose-import and model-loading probes return,
\* the three are run in that order, the script never stops before its exit,
\* the record is written, and the inference probe is run exactly when model
\* loading returned a model.
C3_NoCheckBlocksTheNext ==
    /\ npc # "idle" => ENABLED NodeNext
    /\ npc \in {"environment", "pytorch"} => ProbesRun = <<>>
    /\ npc = "cellpose" => ProbesRun = SubSeq(TestBanners, 1, 1)
    /\ npc = "model_loading" => ProbesRun = SubSeq(TestBanners, 1, 2)
    /\ npc = "inference" => ProbesRun = SubSeq(TestBanners, 1, 3)
    /\ (npc \in {"status", "save", "exit"} \/ NodeRan) =>
          /\ "model_loading" \in DOMAIN result.tests
          /\ ProbesRun = SubSeq(TestBanners, 1,
                                IF result.tests["model_loading"] \in {"success", "success, warning"}
                                THEN 4 ELSE 3)
    /\ NodeRan => nwrites = 1 /\ nargs.output \in DOMAIN fs

C3_Witness ==
    /\ NodeRan
    /\ Len(result.errors) = 3
    /\ result.tests["pytorch"] = "error: boom"
    /\ result.tests["cellpose"] = "error: boom"
    /\ result.tests["model_loading"] = "error: boom"
    /\ ProbesRun = SubSeq(TestBanners, 1, 3)
    /\ nargs.output \in DOMAIN fs

\* C8: a model loaded on the CPU while CUDA is available is still given to
\* the inference probe, and the run ends FAILED with exit code 1 even if the
\* inference succeeds; inference is skipped only when model loading raised
\* and returned no model.
C8_WarningStillInfers ==
    "inference" \in DOMAIN result.tests =>
        /\ ModelWarning \in Range(result.errors) =>
              /\ result.tests["inference"] # InferenceSkipped
              /\ TestBanners[4] \in Range(nstdout)
              /\ npc \in {"save", "exit", "idle"} => result.status = "FAILED"
              /\ NodeRan => nexit = 1 /\ json_load(fs[nargs.output]).status = "FAILED"
        /\ result.tests["inference"] = InferenceSkipped =>
              /\ model = None
              /\ TestBanners[4] \notin Range(nstdout)
              /\ \E e \in Msgs :
                    /\ result.tests["model_loading"] = "error: " \o e
                    /\ ("Model loading error: " \o e) \in Range(result.errors)

C8_Witness ==
    /\ NodeRan
    /\ result.errors = <<ModelWarning>>
    /\ result.tests["inference"] = "success"
    /\ nexit = 1

PytorchErrors ==
    {"CUDA not available despite GPU partition"} \cup {"PyTorch error: " \o e : e \in Msgs}

CellposeErrors == {"Cellpose import error: " \o e : e \in Msgs}

ModelErrors == {ModelWarning} \cup {"Model loading error: " \o e : e \in Msgs}

InferenceErrors == {"Inference error: " \o e : e \in Msgs}

\* what a probe may have added to the error list, given what it left in tests
Contribution(key, succeeded, errors) ==
    IF key \notin DOMAIN result.tests THEN {<<>>}
    ELSE IF result.tests[key] \in succeeded THEN {<<>>}
    ELSE {<<e>> : e \in errors}

\* C9: the error list is the probes' contributions in probe order, each probe
\* contributing one string if it failed and none if it succeeded, so at most
\* four; a skipped inference contributes none and leaves its marker in tests.
C9_OneErrorPerProbeInOrder ==
    /\ Len(result.errors) <= 4
    /\ \E a \in Contribution("pytorch", {"devices"}, PytorchErrors),
          b \in Contribution("cellpose", {"imported"}, CellposeErrors),
          c \in Contribution("model_loading", {"success"}, ModelErrors),
          d \in Contribution("inference", {"success", InferenceSkipped}, InferenceErrors) :
          result.errors = a \o b \o c \o d
    /\ (npc \in {"status", "save", "exit"} /\ model = None) =>
          result.tests["inference"] = InferenceSkipped

C9_Witness ==
    /\ NodeRan
    /\ Len(result.errors) = 4
    /\ result.errors[1] \in PytorchErrors
    /\ result.errors[4] \in InferenceErrors

\* C10: every record the per-node script writes has exactly the five tests
\* keys and a status of SUCCESS or FAILED, and an invocation writes its record
\* exactly once.
C10_RecordComplete ==
    /\ nwrites <= 1
    /\ NodeRan => nwrites = 1
    /\ \A f \in RecordFiles :
          /\ f \in DOMAIN fs
          /\ WellFormed(fs[f])
          /\ DOMAIN json_load(fs[f]).tests = Range(TestKeys)
          /\ json_load(fs[f]).status \in {"SUCCESS", "FAILED"}

C10_Witness ==
    /\ NodeRan
    /\ nwrites = 1
    /\ model = None
    /\ json_load(fs[nargs.output]).tests["inference"] = InferenceSkipped
    /\ json_load(fs[nargs.output]).tests["pytorch"] = "devices"

(***************************************************************************)
(* Properties of summarize_results.py                                      *)
(***************************************************************************)

SummaryWritten == spc = "done" /\ sexit = 0

\* the positions in result_files whose record, as test_gpu_node.py dumped it,
\* has an empty (or a non-empty) error list
DumpedClean == {i \in 1..Len(result_files) : written[result_files[i]].errors = <<>>}

DumpedFailing == {i \in 1..Len(result_files) : written[result_files[i]].errors # <<>>}

\* C5 (under Spec): when records written by the per-node script are
\* summarized, the report's SUCCESS count is the number of records dumped with
\* an empty error list, its FAILED count the number dumped with a non-empty
\* one, and its total their sum.
C5_RoundTripCounts ==
    SummaryWritten =>
        /\ \A i \in 1..Len(result_files) : result_files[i] \in DOMAIN written
        /\ LET report == fs[sargs.output]
           IN  /\ report[4] = TotalLine(Cardinality(DumpedClean) + Cardinality(DumpedFailing))
               /\ report[7] = SuccessLine(Cardinality(DumpedClean))
               /\ report[8] = FailedLine(Cardinality(DumpedFailing))
               /\ SubSeq(sstdout, 2, Len(sstdout)) = report

C5_Witness ==
    /\ SummaryWritten
    /\ Len(result_files) = 2
    /\ Cardinality(DumpedClean) = 1
    /\ Cardinality(DumpedFailing) = 1
    /\ fs[sargs.output][7] = SuccessLine(1)

\* the lines of the report after the breakdown's header and rule, up to the
\* closing banner
BreakdownOf(report) ==
    LET h == CHOOSE i \in 1..Len(report) : report[i] = BreakdownHeader
    IN  SubSeq(report, h + 2, Len(report) - 2)

\* the names of the FAILED records whose error list holds e, in input order
AffectedNodes(rs, e) ==
    LET hit == SelectSeq(rs, LAMBDA r : r.status = "FAILED" /\ e \in Range(r.errors))
    IN  [i \in 1..Len(hit) |-> hit[i].node]

\* C4 (under SpecSum): the breakdown has exactly one entry per distinct error
\* string of the FAILED records, and an entry lists exactly the FAILED records
\* holding that string, in input order, with their number as the count.
C4_GroupsByErrorString ==
    SummaryWritten =>
        LET body   == BreakdownOf(fs[sargs.output])
            n      == Len(body) \div 3
            failed == SelectSeq(results, LAMBDA r : r.status = "FAILED")
            errors == UNION {Range(failed[i].errors) : i \in 1..Len(failed)}
        IN  /\ Len(body) = 3 * n
            /\ n = Cardinality(errors)
            /\ {body[3 * k - 1] : k \in 1..n} = errors
            /\ \A k \in 1..n : body[3 * k] = AffectedLine(AffectedNodes(results, body[3 * k - 1]))

\* C6 (under SpecSum): a command line that gives --output and either
\* --input-dir or --input-files is accepted; with --input-files the files
\* loaded are the listed ones in the given order, otherwise the directory's
\* files ending in _result.json, sorted.
C6_EitherInputAccepted ==
    (spc # "idle" /\ argv.output # None
        /\ (argv.input_dir # None \/ argv.input_files # <<>>)) =>
        /\ sexit # 2
        /\ result_files =
              IF argv.input_files # <<>>
              THEN argv.input_files
              ELSE sorted({f \in DOMAIN fs_before : EndsWith(f, ResultSuffix)})

\* a file to load that exists and is not JSON
MalformedInput ==
    \E i \in 1..Len(result_files) :
        /\ result_files[i] \in DOMAIN fs_before
        /\ ~WellFormed(fs_before[result_files[i]])

\* C7 (under SpecSum): when one of the input files is not well-formed JSON the
\* run ends in an unhandled failure, the --output file is as it was before
\* the run and nothing is echoed.
C7_MalformedAborts ==
    (spc # "idle" /\ sexit # 2 /\ MalformedInput) =>
        /\ fs = fs_before
        /\ sstdout = <<>>
        /\ spc \in {"load", "done"}
        /\ spc = "load" => Len(results) < Len(result_files) /\ ENABLED SumLoad
        /\ spc = "done" => sexit = 1

C7_Witness ==
    /\ spc = "done" /\ sexit = 1
    /\ Len(result_files) = 2 /\ Len(results) = 1
    /\ result_files[2] \in DOMAIN fs /\ fs[result_files[2]] = Malformed
    /\ sargs.output \in DOMAIN fs /\ fs[sargs.output] = OldReport

====
